---- MODULE Spec2Model ----
(***************************************************************************)
(* Model of creme/stats/mean.pyx: the running mean (Mean), the rolling     *)
(* mean (RollingMean over summing.RollingSum) and the Bayesian mean        *)
(* (BayesianMean).                                                         *)
(*                                                                         *)
(* Numbers.  The code computes in IEEE doubles.  Here a double is an exact *)
(* rational <<num, den>> in lowest terms with den > 0, so every equality   *)
(* below is an equality of real arithmetic: rounding is not modelled.  The *)
(* inputs (values, weights, prior, prior weight) are small integers, and   *)
(* the sum of weights n therefore stays an integer.                        *)
(*                                                                         *)
(* One behaviour exercises one object: obj names the class constructed.    *)
(* A BayesianMean holds a Mean in self.mean, modelled by mean and n.       *)
(***************************************************************************)
EXTENDS Integers, Sequences, FiniteSets, Bags

\* ---- bounds -------------------------------------------------------------
MaxOps == 3        \* number of update/revert calls in a behaviour
MaxX == 2          \* values fed lie in -MaxX..MaxX
MaxW == 2          \* weights lie in -1..MaxW
MaxWindow == 3     \* window_size lies in 1..MaxWindow
MaxPrior == 2      \* prior lies in -1..MaxPrior
MaxPriorWeight == 2 \* prior_weight lies in -MaxPriorWeight..MaxPriorWeight
MaxUnlearnOps == 5 \* number of update/revert calls in a behaviour of SpecUnlearn

Values == (0 - MaxX)..MaxX
Weights == (0 - 1)..MaxW
WindowSizes == 1..MaxWindow
Priors == (0 - 1)..MaxPrior
PriorWeights == (0 - MaxPriorWeight)..MaxPriorWeight

VARIABLES
    obj,           \* the object: "Mean", "RollingMean", "BayesianMean", or
                   \* "WindowedMean": a Mean and a RollingMean fed one stream
    mean,          \* Mean.mean, a rational
    n,             \* Mean.n, the sum of weights
    window_size,   \* RollingSum.window_size
    window,        \* the values held by the window, oldest first
    running_sum,   \* the sum kept by RollingSum
    prior,         \* BayesianMean.prior
    prior_weight,  \* BayesianMean.prior_weight
    ret,           \* outcome of the last call: [err, val]
    last,          \* the last call: [op, x, w]
    pre,           \* mean and n before the last call
    hist,          \* history of the calls on the Mean (see Hist0)
    fed,           \* every value fed to the RollingMean, in arrival order
    ops,           \* number of update/revert calls made
    held           \* the observations a Mean holds (see Held0)

vars == <<obj, mean, n, window_size, window, running_sum, prior, prior_weight,
          ret, last, pre, hist, fed, ops, held>>

\* ---- rationals ----------------------------------------------------------
Abs(a) == IF a < 0 THEN 0 - a ELSE a

RECURSIVE GCD(_, _)
GCD(a, b) == IF b = 0 THEN a ELSE GCD(b, a % b)

\* the rational a/b (b # 0) in lowest terms with a positive denominator
Rat(a, b) ==
    LET g == GCD(Abs(a), Abs(b))
        s == IF b < 0 THEN 0 - 1 ELSE 1
    IN  <<(s * a) \div g, (s * b) \div g>>

I(a) == <<a, 1>>
RAdd(p, q) == Rat(p[1] * q[2] + q[1] * p[2], p[2] * q[2])
RSub(p, q) == Rat(p[1] * q[2] - q[1] * p[2], p[2] * q[2])
RMul(p, q) == Rat(p[1] * q[1], p[2] * q[2])
RQuo(p, q) == Rat(p[1] * q[2], p[2] * q[1])

\* ---- outcomes of a call -------------------------------------------------
Returned(v) == [err |-> "none", val |-> v]
Raised(e) == [err |-> e, val |-> I(0)]
\* update and revert return self, which carries no number
ReturnedSelf == Returned(I(0))
\* a call: its name and arguments; rep: the call before it was a get too
NoCall == [op |-> "init", x |-> 0, w |-> 0, rep |-> FALSE]

\* Python's true division: ZeroDivisionError on a zero divisor
Div(p, q) == IF q[1] = 0 THEN Raised("ZeroDivisionError") ELSE Returned(RQuo(p, q))

\* ---- Mean ---------------------------------------------------------------
\* faulty update: the weight is left out of the correction of the mean
Mean_update_unweighted(m, k, x, w) ==
    LET k2 == k + w
    IN  [n    |-> k2,
         mean |-> IF k2 > 0 THEN RAdd(m, RQuo(RSub(I(x), m), I(k2))) ELSE m,
         err  |-> "none"]

\* faulty update: the weight is subtracted from n
Mean_update_subtract(m, k, x, w) ==
    LET k2 == k - w
    IN  [n    |-> k2,
         mean |-> IF k2 > 0
                  THEN RAdd(m, RQuo(RMul(I(w), RSub(I(x), m)), I(k2)))
                  ELSE m,
         err  |-> "none"]

\* faulty update: the mean is reset when n does not end above 0
Mean_update_reset(m, k, x, w) ==
    LET k2 == k + w
    IN  [n    |-> k2,
         mean |-> IF k2 > 0
                  THEN RAdd(m, RQuo(RMul(I(w), RSub(I(x), m)), I(k2)))
                  ELSE I(0),
         err  |-> "none"]

\* Mean.update(x, w): the fields after the call
Mean_update(m, k, x, w) ==
    LET k2 == k + w
    IN  [n    |-> k2,
         mean |-> IF k2 > 0
                  THEN RAdd(m, RQuo(RMul(I(w), RSub(I(x), m)), I(k2)))
                  ELSE m,
         err  |-> "none"]

\* faulty revert: the correction is divided by n as it was before the call
Mean_revert_oldn(m, k, x, w) ==
    LET k2 == k - w
    IN  IF k2 < 0 THEN [n |-> k2, mean |-> m, err |-> "ValueError"]
        ELSE IF k2 = 0 THEN [n |-> k2, mean |-> I(0), err |-> "none"]
        ELSE [n    |-> k2,
              mean |-> RSub(m, RQuo(RMul(I(w), RSub(I(x), m)), I(k))),
              err  |-> "none"]

\* faulty revert: it also raises when n reaches 0
Mean_revert_strict(m, k, x, w) ==
    LET k2 == k - w
    IN  IF k2 <= 0 THEN [n |-> k2, mean |-> m, err |-> "ValueError"]
        ELSE [n    |-> k2,
              mean |-> RSub(m, RQuo(RMul(I(w), RSub(I(x), m)), I(k2))),
              err  |-> "none"]

\* faulty revert: the correction is added to the mean
Mean_revert_plus(m, k, x, w) ==
    LET k2 == k - w
    IN  IF k2 < 0 THEN [n |-> k2, mean |-> m, err |-> "ValueError"]
        ELSE IF k2 = 0 THEN [n |-> k2, mean |-> I(0), err |-> "none"]
        ELSE [n    |-> k2,
              mean |-> RAdd(m, RQuo(RMul(I(w), RSub(I(x), m)), I(k2))),
              err  |-> "none"]

\* faulty revert: the mean is kept when n reaches 0
Mean_revert_noreset(m, k, x, w) ==
    LET k2 == k - w
    IN  IF k2 < 0 THEN [n |-> k2, mean |-> m, err |-> "ValueError"]
        ELSE IF k2 = 0 THEN [n |-> k2, mean |-> m, err |-> "none"]
        ELSE [n    |-> k2,
              mean |-> RSub(m, RQuo(RMul(I(w), RSub(I(x), m)), I(k2))),
              err  |-> "none"]

\* faulty revert: the weight is left out of the correction of the mean
Mean_revert_unweighted(m, k, x, w) ==
    LET k2 == k - w
    IN  IF k2 < 0 THEN [n |-> k2, mean |-> m, err |-> "ValueError"]
        ELSE IF k2 = 0 THEN [n |-> k2, mean |-> I(0), err |-> "none"]
        ELSE [n    |-> k2,
              mean |-> RSub(m, RQuo(RSub(I(x), m), I(k2))),
              err  |-> "none"]

\* Mean.revert(x, w): the fields after the call and whether it raised.
\* self.n is decremented before the test, so a raising call keeps the
\* decremented n.
Mean_revert(m, k, x, w) ==
    LET k2 == k - w
    IN  IF k2 < 0 THEN [n |-> k2, mean |-> m, err |-> "ValueError"]
        ELSE IF k2 = 0 THEN [n |-> k2, mean |-> I(0), err |-> "none"]
        ELSE [n    |-> k2,
              mean |-> RSub(m, RQuo(RMul(I(w), RSub(I(x), m)), I(k2))),
              err  |-> "none"]

\* faulty get: it returns the sum of weights
Mean_get_n(m) == Returned(I(n))

\* Mean.get()
Mean_get(m) == Returned(m)

\* ---- history of the calls on the Mean -----------------------------------
\* wx, w: sum of w*x and of w over the update calls; updates, reverts: the
\* number of calls; rw: sum of w over the revert calls that returned; negw:
\* some call had a negative weight; over: some revert asked for more weight
\* than was held; failed: some revert raised.
Hist0 == [wx |-> 0, w |-> 0, updates |-> 0, reverts |-> 0, rw |-> 0,
          negw |-> FALSE, over |-> FALSE, failed |-> FALSE]

HistUpdate(h, x, w) ==
    [h EXCEPT !.wx = @ + w * x, !.w = @ + w, !.updates = @ + 1,
              !.negw = @ \/ w < 0]

HistRevert(h, k, w, e) ==
    [h EXCEPT !.reverts = @ + 1, !.rw = IF e = "none" THEN @ + w ELSE @,
              !.negw = @ \/ w < 0, !.over = @ \/ w > k,
              !.failed = @ \/ e # "none"]

\* ---- the observations a Mean holds ---------------------------------------
\* pairs: the bag of the pairs <<x, w>> given to update and not yet given to
\* revert; newest: the pair of the latest update; ok: every update had
\* w > 0 and every revert was given a pair of the bag.  Once ok is lost the
\* record is no longer kept.
Held0 == [pairs |-> EmptyBag, newest |-> <<0, 0>>, ok |-> TRUE]
HeldLost == [pairs |-> EmptyBag, newest |-> <<0, 0>>, ok |-> FALSE]

HeldUpdate(h, x, w) ==
    IF h.ok /\ w > 0
    THEN [pairs |-> h.pairs (+) SetToBag({<<x, w>>}), newest |-> <<x, w>>, ok |-> TRUE]
    ELSE HeldLost

HeldRevert(h, x, w) ==
    IF h.ok /\ BagIn(<<x, w>>, h.pairs)
    THEN [h EXCEPT !.pairs = @ (-) SetToBag({<<x, w>>})]
    ELSE HeldLost

\* ---- initial state ------------------------------------------------------
Init ==
    /\ obj \in {"Mean", "RollingMean", "BayesianMean", "WindowedMean"}
    /\ mean = I(0)
    /\ n = 0
    /\ window_size \in (IF obj \in {"RollingMean", "WindowedMean"}
                        THEN WindowSizes ELSE {1})
    /\ window = <<>>
    /\ running_sum = 0
    /\ prior \in (IF obj = "BayesianMean" THEN Priors ELSE {0})
    /\ prior_weight \in (IF obj = "BayesianMean" THEN PriorWeights ELSE {0})
    /\ ret = Returned(I(0))
    /\ last = NoCall
    /\ pre = [mean |-> I(0), n |-> 0]
    /\ hist = Hist0
    /\ fed = <<>>
    /\ ops = 0
    /\ held = Held0

\* ---- actions on a Mean --------------------------------------------------
MeanUpdate ==
    /\ obj = "Mean"
    /\ ops < MaxOps
    /\ \E x \in Values, w \in Weights :
         LET r == Mean_update(mean, n, x, w)
         IN  /\ mean' = r.mean
             /\ n' = r.n
             /\ ret' = ReturnedSelf
             /\ last' = [op |-> "update", x |-> x, w |-> w, rep |-> FALSE]
             /\ hist' = HistUpdate(hist, x, w)
             /\ held' = HeldUpdate(held, x, w)
    /\ pre' = [mean |-> mean, n |-> n]
    /\ ops' = ops + 1
    /\ UNCHANGED <<obj, window_size, window, running_sum, prior, prior_weight, fed>>

MeanRevert ==
    /\ obj = "Mean"
    /\ ops < MaxOps
    /\ \E x \in Values, w \in Weights :
         LET r == Mean_revert(mean, n, x, w)
         IN  /\ mean' = r.mean
             /\ n' = r.n
             /\ ret' = (IF r.err = "none" THEN ReturnedSelf ELSE Raised(r.err))
             /\ last' = [op |-> "revert", x |-> x, w |-> w, rep |-> FALSE]
             /\ hist' = HistRevert(hist, n, w, r.err)
             /\ held' = HeldRevert(held, x, w)
    /\ pre' = [mean |-> mean, n |-> n]
    /\ ops' = ops + 1
    /\ UNCHANGED <<obj, window_size, window, running_sum, prior, prior_weight, fed>>

MeanGet ==
    /\ obj = "Mean"
    /\ ret' = Mean_get(mean)
    /\ last' = [op |-> "get", x |-> 0, w |-> 0, rep |-> last.op = "get"]
    /\ pre' = [mean |-> mean, n |-> n]
    /\ UNCHANGED <<obj, held, mean, n, window_size, window, running_sum, prior,
                   prior_weight, hist, fed, ops>>

\* ---- RollingSum (creme/stats/summing.py) and RollingMean -----------------
\* faulty update: the evicted value stays in the sum
RollingSum_update_nosubtract(win, s, size, x) ==
    IF Len(win) = size
    THEN [window |-> Append(Tail(win), x), sum |-> s + x]
    ELSE [window |-> Append(win, x), sum |-> s + x]

\* faulty update: a full window gives up its newest value
RollingSum_update_lifo(win, s, size, x) ==
    IF Len(win) = size
    THEN [window |-> Append(SubSeq(win, 1, Len(win) - 1), x),
          sum |-> (s - win[Len(win)]) + x]
    ELSE [window |-> Append(win, x), sum |-> s + x]

\* RollingSum.update(x): a full window first gives up its oldest value
RollingSum_update(win, s, size, x) ==
    IF Len(win) = size
    THEN [window |-> Append(Tail(win), x), sum |-> (s - Head(win)) + x]
    ELSE [window |-> Append(win, x), sum |-> s + x]

\* RollingSum.get()
RollingSum_get(s) == s

\* faulty get: the sum is divided by the capacity of the window
RollingMean_get_capacity(s, len) ==
    IF len > 0 THEN Div(I(RollingSum_get(s)), I(window_size)) ELSE Returned(I(0))

\* faulty get: the empty window is not told apart
RollingMean_get_noguard(s, len) == Div(I(RollingSum_get(s)), I(len))

\* RollingMean.get(): super().get() / len(self) if len(self) > 0 else 0
RollingMean_get(s, len) ==
    IF len > 0 THEN Div(I(RollingSum_get(s)), I(len)) ELSE Returned(I(0))

RollingUpdate ==
    /\ obj = "RollingMean"
    /\ ops < MaxOps
    /\ \E x \in Values :
         LET r == RollingSum_update(window, running_sum, window_size, x)
         IN  /\ window' = r.window
             /\ running_sum' = r.sum
             /\ last' = [op |-> "update", x |-> x, w |-> 1, rep |-> FALSE]
             /\ fed' = Append(fed, x)
    /\ ret' = ReturnedSelf
    /\ ops' = ops + 1
    /\ UNCHANGED <<obj, held, mean, n, window_size, prior, prior_weight, pre, hist>>

RollingGet ==
    /\ obj = "RollingMean"
    /\ ret' = RollingMean_get(running_sum, Len(window))
    /\ last' = [op |-> "get", x |-> 0, w |-> 0, rep |-> last.op = "get"]
    /\ UNCHANGED <<obj, held, mean, n, window_size, window, running_sum, prior,
                   prior_weight, pre, hist, fed, ops>>

\* ---- BayesianMean -------------------------------------------------------
\* faulty update: the observation is weighted by the prior weight
BayesianMean_update_priorWeight(m, k, x) == Mean_update(m, k, x, prior_weight)

\* BayesianMean.update(x): self.mean.update(x), the weight defaulting to 1
BayesianMean_update(m, k, x) == Mean_update(m, k, x, 1)

\* faulty get: the running mean is not weighted by the number of observations
BayesianMean_get_unweighted(R, v, C, m) ==
    Div(RAdd(R, I(C * m)), I(v + m))

\* faulty get: the prior is not weighted by the prior weight
BayesianMean_get_priorOnce(R, v, C, m) ==
    Div(RAdd(RMul(R, I(v)), I(C)), I(v + m))

\* faulty get: the two weights are swapped
BayesianMean_get_swapped(R, v, C, m) ==
    Div(RAdd(RMul(R, I(m)), I(C * v)), I(v + m))

\* faulty get: a zero divisor is answered with the prior
BayesianMean_get_guarded(R, v, C, m) ==
    IF v + m = 0 THEN Returned(I(C))
    ELSE Div(RAdd(RMul(R, I(v)), I(C * m)), I(v + m))

\* BayesianMean.get(): (R * v + C * m) / (v + m)
BayesianMean_get(R, v, C, m) ==
    Div(RAdd(RMul(R, I(v)), I(C * m)), I(v + m))

BayesUpdate ==
    /\ obj = "BayesianMean"
    /\ ops < MaxOps
    /\ \E x \in Values :
         LET r == BayesianMean_update(mean, n, x)
         IN  /\ mean' = r.mean
             /\ n' = r.n
             /\ last' = [op |-> "update", x |-> x, w |-> 1, rep |-> FALSE]
             /\ hist' = HistUpdate(hist, x, 1)
    /\ ret' = ReturnedSelf
    /\ pre' = [mean |-> mean, n |-> n]
    /\ ops' = ops + 1
    /\ UNCHANGED <<obj, held, window_size, window, running_sum, prior, prior_weight, fed>>

\* faulty get: the prior is folded into the accumulator when it is read
BayesGet_folding ==
    /\ obj = "BayesianMean"
    /\ ret' = BayesianMean_get(Mean_get(mean).val, n, prior, prior_weight)
    /\ last' = [op |-> "get", x |-> 0, w |-> 0, rep |-> last.op = "get"]
    /\ pre' = [mean |-> mean, n |-> n]
    /\ mean' = Mean_update(mean, n, prior, prior_weight).mean
    /\ n' = Mean_update(mean, n, prior, prior_weight).n
    /\ UNCHANGED <<obj, held, window_size, window, running_sum, prior,
                   prior_weight, hist, fed, ops>>

BayesGet ==
    /\ obj = "BayesianMean"
    /\ ret' = BayesianMean_get(Mean_get(mean).val, n, prior, prior_weight)
    /\ last' = [op |-> "get", x |-> 0, w |-> 0, rep |-> last.op = "get"]
    /\ pre' = [mean |-> mean, n |-> n]
    /\ UNCHANGED <<obj, held, mean, n, window_size, window, running_sum, prior,
                   prior_weight, hist, fed, ops>>

\* ---- a windowed mean kept on a Mean --------------------------------------
\* "add newest, revert oldest" with unit weights: update(x) on every arrival
\* and, once more than window_size values have arrived, revert(oldest)
Windowed_arrive(m, k, win, size, x) ==
    LET u == Mean_update(m, k, x, 1)
    IN  IF Len(win) = size THEN Mean_revert(u.mean, u.n, Head(win), 1) ELSE u

\* an arrival: the value goes to the Mean as above and to the RollingMean,
\* and get() of the Mean is read
WindowedArrive ==
    /\ obj = "WindowedMean"
    /\ ops < MaxOps
    /\ \E x \in Values :
         LET a == Windowed_arrive(mean, n, window, window_size, x)
             r == RollingSum_update(window, running_sum, window_size, x)
         IN  /\ mean' = a.mean
             /\ n' = a.n
             /\ window' = r.window
             /\ running_sum' = r.sum
             /\ ret' = (IF a.err = "none" THEN Mean_get(a.mean) ELSE Raised(a.err))
             /\ last' = [op |-> "arrive", x |-> x, w |-> 1, rep |-> FALSE]
             /\ fed' = Append(fed, x)
    /\ pre' = [mean |-> mean, n |-> n]
    /\ ops' = ops + 1
    /\ UNCHANGED <<obj, held, window_size, prior, prior_weight, hist>>

Next ==
    \/ MeanUpdate \/ MeanRevert \/ MeanGet
    \/ RollingUpdate \/ RollingGet
    \/ BayesUpdate \/ BayesGet
    \/ WindowedArrive

Spec == Init /\ [][Next]_vars
\* ---- properties ---------------------------------------------------------
Min(a, b) == IF a < b THEN a ELSE b

RECURSIVE SumSeq(_)
SumSeq(q) == IF q = <<>> THEN 0 ELSE Head(q) + SumSeq(Tail(q))

\* the last k elements of q
LastK(q, k) == SubSeq(q, Len(q) - k + 1, Len(q))

\* update(x, w) followed by revert(x, w), from the fields m, k
RoundTrip(m, k, x, w) ==
    LET u == Mean_update(m, k, x, w)
    IN  Mean_revert(u.mean, u.n, x, w)

\* C1: on a Mean that has only received update calls with non-negative
\* weights of positive total, get() is sum(w_i * x_i) / sum(w_i).
C1_WeightedMean ==
    (obj = "Mean" /\ hist.reverts = 0 /\ ~hist.negw /\ hist.w > 0)
        => Mean_get(mean) = Returned(Rat(hist.wx, hist.w))

C1_Witness ==
    /\ obj = "Mean" /\ last.op = "get"
    /\ hist.reverts = 0 /\ ~hist.negw /\ hist.updates >= 2 /\ hist.w >= 3
    /\ ret = Returned(Rat(hist.wx, hist.w))
    /\ ret.val[2] # 1

C3_RevertRaises ==
    (obj = "Mean" /\ last.op = "revert") =>
        /\ ret.err \in {"none", "ValueError"}
        /\ (ret.err = "ValueError") <=> (pre.n - last.w < 0)
        /\ (~hist.negw /\ ret.err = "none") => hist.rw <= hist.w

C3_Witness ==
    /\ obj = "Mean" /\ last.op = "revert" /\ ret.err = "ValueError"
    /\ hist.updates > 0 /\ pre.n > 0 /\ last.w > pre.n

\* C4: after update and revert calls with non-negative weights in which no
\* revert asked for more weight than was held, n >= 0.
C4_NonNegative ==
    (obj = "Mean" /\ ~hist.negw /\ ~hist.over) => n >= 0

C4_Witness ==
    /\ obj = "Mean" /\ ~hist.negw /\ ~hist.over
    /\ last.op = "revert" /\ last.w > 0 /\ hist.updates >= 2 /\ n = 0

\* C5: get() of a RollingMean after the k-th update, k >= 1, is the mean of
\* the last min(k, window_size) values fed.
C5_RollingMean ==
    (obj = "RollingMean" /\ last.op = "get" /\ Len(fed) >= 1) =>
        LET k == Min(Len(fed), window_size)
        IN  ret = Returned(Rat(SumSeq(LastK(fed, k)), k))

C5_Witness ==
    /\ obj = "RollingMean" /\ last.op = "get"
    /\ window_size >= 2 /\ Len(fed) > window_size
    /\ fed[1] # fed[Len(fed)]
    /\ ret.err = "none" /\ ret.val[2] # 1

\* C6: get() of a RollingMean never raises, and returns 0 on a window that
\* has received no update.
C6_RollingEmpty ==
    (obj = "RollingMean" /\ last.op = "get") =>
        /\ ret.err = "none"
        /\ fed = <<>> => ret.val = I(0)

C6_Witness ==
    /\ obj = "RollingMean" /\ last.op = "get" /\ fed = <<>>
    /\ ret = Returned(I(0))

\* C7: get() of a BayesianMean(C, m) after k updates x_1..x_k with
\* k + m # 0 is (x_1 + ... + x_k + C * m) / (k + m).
C7_BayesianMean ==
    (obj = "BayesianMean" /\ last.op = "get" /\ hist.updates + prior_weight # 0) =>
        ret = Returned(Rat(hist.wx + prior * prior_weight, hist.updates + prior_weight))

C7_Witness ==
    /\ obj = "BayesianMean" /\ last.op = "get"
    /\ hist.updates >= 2 /\ prior # 0 /\ prior_weight > 0
    /\ ret.err = "none" /\ ret.val[2] # 1

C9_Original ==
    (obj = "Mean" /\ hist.updates = 0) => Mean_get(mean) = Returned(I(0))

\* C9 amended: get() of a Mean is 0 as long as no update call and no revert
\* call with a negative weight was made.
C9_NoWeightAdded ==
    (obj = "Mean" /\ hist.updates = 0 /\ ~hist.negw) => Mean_get(mean) = Returned(I(0))

C9_Witness ==
    /\ obj = "Mean" /\ last.op = "get" /\ hist.updates = 0 /\ ~hist.negw
    /\ hist.reverts > 0 /\ hist.failed /\ n < 0
    /\ ret = Returned(I(0))

\* C10: a get() call changes no field of the object, and a get() that
\* follows a get() returns the same outcome.
C10_GetFrame ==
    [][(last'.op = "get") =>
          /\ UNCHANGED <<obj, mean, n, window_size, window, running_sum,
                         prior, prior_weight>>
          /\ (last.op = "get" => ret' = ret)]_vars

C10_Witness ==
    /\ obj = "BayesianMean" /\ last.op = "get" /\ last.rep
    /\ hist.updates > 0 /\ prior_weight # 0
    /\ ret.err = "none" /\ ret.val # I(0)
\* revert(x, w) followed by update(x, w), from the fields m, k
TripRound(m, k, x, w) ==
    LET r == Mean_revert(m, k, x, w)
    IN  Mean_update(r.mean, r.n, x, w)

\* C11 as stated: from any state of a Mean and for any (x, w) with
\* 0 <= w <= n, revert(x, w) then update(x, w) restores mean and n.
C11_Original ==
    obj = "Mean" =>
        \A x \in Values, w \in Weights :
            (0 <= w /\ w <= n) => /\ TripRound(mean, n, x, w).mean = mean
                                  /\ TripRound(mean, n, x, w).n = n

\* C11 amended: from any state of a Mean and for any (x, w) with
\* 0 <= w < n, or with w = n > 0 and mean = x, revert(x, w) then
\* update(x, w) raises nothing and restores mean and n.
C11_RevertUpdate ==
    obj = "Mean" =>
        \A x \in Values, w \in Weights :
            ((0 <= w /\ w < n) \/ (0 < w /\ w = n /\ mean = I(x))) =>
                /\ Mean_revert(mean, n, x, w).err = "none"
                /\ TripRound(mean, n, x, w) = [n |-> n, mean |-> mean, err |-> "none"]

\* an update(x, w) has just undone what revert(x, w) does to the present state
C11_Witness ==
    /\ obj = "Mean" /\ last.op = "update"
    /\ last.w > 0 /\ last.w < n
    /\ Mean_revert(mean, n, last.x, last.w) = [n |-> pre.n, mean |-> pre.mean, err |-> "none"]
    /\ pre.mean # mean
    /\ TripRound(mean, n, last.x, last.w) = [n |-> n, mean |-> mean, err |-> "none"]

\* C12: update(x, w) adds w to n and raises nothing; when the new n is > 0
\* the mean becomes mean + w * (x - mean) / n, otherwise it is unchanged.
C12_Update ==
    (obj = "Mean" /\ last.op = "update") =>
        /\ n = pre.n + last.w
        /\ ret.err = "none"
        /\ n > 0 => mean = RAdd(pre.mean,
                                RQuo(RMul(I(last.w), RSub(I(last.x), pre.mean)), I(n)))
        /\ n <= 0 => mean = pre.mean

C12_Witness ==
    /\ obj = "Mean" /\ last.op = "update"
    /\ last.w < 0 /\ n = 0 /\ pre.mean # I(0) /\ mean = pre.mean
    /\ ret.err = "none"

\* C13: a revert that brings n to 0 resets mean to 0; and after update and
\* revert calls with non-negative weights of which no revert raised, n = 0
\* implies mean = 0.
C13_ResetAtZero ==
    /\ (obj = "Mean" /\ last.op = "revert" /\ n = 0) => mean = I(0)
    /\ (obj = "Mean" /\ ~hist.negw /\ ~hist.failed /\ n = 0) => mean = I(0)

C13_Witness ==
    /\ obj = "Mean" /\ last.op = "revert" /\ n = 0 /\ ~hist.negw /\ ~hist.failed
    /\ pre.mean # I(0) /\ I(last.x) # pre.mean /\ mean = I(0)
\* C14: the running sum of a RollingMean is the sum of the values held by
\* its window, evictions included.
C14_RunningSum ==
    obj = "RollingMean" => RollingSum_get(running_sum) = SumSeq(window)

C14_Witness ==
    /\ obj = "RollingMean" /\ last.op = "update"
    /\ window_size >= 2 /\ Len(fed) > window_size
    /\ fed[1] # 0 /\ running_sum # SumSeq(fed)
    /\ running_sum = SumSeq(window)

\* C15: after k updates the window of a RollingMean holds the last
\* min(k, window_size) values fed, oldest first.
C15_Fifo ==
    obj = "RollingMean" =>
        /\ Len(window) = Min(Len(fed), window_size)
        /\ Len(window) <= window_size
        /\ window = LastK(fed, Min(Len(fed), window_size))

C15_Witness ==
    /\ obj = "RollingMean" /\ last.op = "update"
    /\ window_size >= 2 /\ Len(fed) > window_size
    /\ Len(window) = window_size
    /\ window[1] # fed[1] /\ window[1] # window[Len(window)]
    /\ window = LastK(fed, window_size)
\* C16: update and get of a BayesianMean never change prior and
\* prior_weight, and the Mean it holds depends on the observations only:
\* after k >= 1 updates its n is k and its mean is their arithmetic mean.
C16_PriorFrame ==
    /\ [][obj = "BayesianMean" => UNCHANGED <<prior, prior_weight>>]_vars
    /\ [](obj = "BayesianMean" =>
             /\ n = hist.updates
             /\ hist.updates = 0 => mean = I(0)
             /\ hist.updates > 0 => mean = Rat(hist.wx, hist.updates))

C16_Witness ==
    /\ obj = "BayesianMean" /\ last.op = "get" /\ hist.updates >= 2
    /\ prior # 0 /\ prior_weight < 0
    /\ I(prior) # mean /\ mean = Rat(hist.wx, hist.updates) /\ n = hist.updates

\* order and distance of rationals
RLe(p, q) == p[1] * q[2] <= q[1] * p[2]
RBetween(g, a, b) == (RLe(a, g) /\ RLe(g, b)) \/ (RLe(b, g) /\ RLe(g, a))
RDist(p, q) == LET d == RSub(p, q) IN <<Abs(d[1]), d[2]>>

\* C17: with prior_weight > 0 and at least one observation, get() of a
\* BayesianMean lies between the mean of the observations and the prior;
\* and, the mean of the observations being fixed, its distance to the prior
\* does not grow with a larger prior_weight or with fewer observations.
C17_Shrinkage ==
    (obj = "BayesianMean" /\ prior_weight > 0 /\ hist.updates >= 1) =>
        LET g == BayesianMean_get(mean, n, prior, prior_weight)
        IN  /\ g.err = "none"
            /\ RBetween(g.val, Rat(hist.wx, hist.updates), I(prior))
            /\ \A m2 \in prior_weight..(MaxPriorWeight + 2) :
                   RLe(RDist(BayesianMean_get(mean, n, prior, m2).val, I(prior)),
                       RDist(g.val, I(prior)))
            /\ \A v2 \in 1..n :
                   RLe(RDist(BayesianMean_get(mean, v2, prior, prior_weight).val, I(prior)),
                       RDist(g.val, I(prior)))

C17_Witness ==
    /\ obj = "BayesianMean" /\ last.op = "get"
    /\ prior_weight > 0 /\ hist.updates >= 2 /\ ret.err = "none"
    /\ ret.val # mean /\ ret.val # I(prior)
    /\ RBetween(ret.val, mean, I(prior))
    /\ RDist(BayesianMean_get(mean, n, prior, prior_weight + 1).val, I(prior))
           # RDist(ret.val, I(prior))

\* C18: nothing is refused at construction or on update of a BayesianMean,
\* and get() raises ZeroDivisionError exactly when n + prior_weight = 0.
C18_ZeroDivision ==
    obj = "BayesianMean" =>
        /\ last.op = "update" => ret.err = "none"
        /\ last.op = "get" =>
              /\ ret.err \in {"none", "ZeroDivisionError"}
              /\ (ret.err = "ZeroDivisionError") <=> (n + prior_weight = 0)

C18_Witness ==
    /\ obj = "BayesianMean" /\ last.op = "get"
    /\ hist.updates >= 1 /\ prior_weight = 0 - hist.updates
    /\ ret.err = "ZeroDivisionError"
\* C19: after every arrival, get() of the Mean kept by "add newest, revert
\* oldest" is get() of the RollingMean(window_size) fed the same stream.
C19_WindowedMean ==
    (obj = "WindowedMean" /\ last.op = "arrive") =>
        /\ ret.err = "none"
        /\ ret = RollingMean_get(running_sum, Len(window))
        /\ n = Len(window)

C19_Witness ==
    /\ obj = "WindowedMean" /\ last.op = "arrive"
    /\ window_size >= 2 /\ Len(fed) > window_size
    /\ fed[1] # fed[Len(fed)]
    /\ ret.err = "none" /\ ret.val[2] # 1
    /\ ret = RollingMean_get(running_sum, Len(window))

\* C20: a revert that raises leaves mean and n as they were before the call.
C20_FailedRevertUnchanged ==
    (obj = "Mean" /\ last.op = "revert" /\ ret.err # "none") =>
        (mean = pre.mean /\ n = pre.n)
\* ---- a Mean that un-learns observations -----------------------------------
\* The calls on a Mean restricted to update(x, w) with w > 0 and to
\* revert(x, w) of a pair updated before and not yet reverted.
UnlearnInit == Init /\ obj = "Mean"

UnlearnUpdate ==
    /\ obj = "Mean"
    /\ ops < MaxUnlearnOps
    /\ \E x \in Values, w \in 1..MaxW :
         LET r == Mean_update(mean, n, x, w)
         IN  /\ mean' = r.mean
             /\ n' = r.n
             /\ ret' = ReturnedSelf
             /\ last' = [op |-> "update", x |-> x, w |-> w, rep |-> FALSE]
             /\ hist' = HistUpdate(hist, x, w)
             /\ held' = HeldUpdate(held, x, w)
    /\ pre' = [mean |-> mean, n |-> n]
    /\ ops' = ops + 1
    /\ UNCHANGED <<obj, window_size, window, running_sum, prior, prior_weight, fed>>

UnlearnRevert ==
    /\ obj = "Mean"
    /\ ops < MaxUnlearnOps
    /\ \E p \in BagToSet(held.pairs) :
         LET r == Mean_revert(mean, n, p[1], p[2])
         IN  /\ mean' = r.mean
             /\ n' = r.n
             /\ ret' = (IF r.err = "none" THEN ReturnedSelf ELSE Raised(r.err))
             /\ last' = [op |-> "revert", x |-> p[1], w |-> p[2], rep |-> FALSE]
             /\ hist' = HistRevert(hist, n, p[2], r.err)
             /\ held' = HeldRevert(held, p[1], p[2])
    /\ pre' = [mean |-> mean, n |-> n]
    /\ ops' = ops + 1
    /\ UNCHANGED <<obj, window_size, window, running_sum, prior, prior_weight, fed>>

UnlearnNext == UnlearnUpdate \/ UnlearnRevert \/ MeanGet

SpecUnlearn == UnlearnInit /\ [][UnlearnNext]_vars

\* sums of w and of w * x over the pairs <<x, w>> of a bag
RECURSIVE BagW(_)
BagW(B) ==
    IF BagToSet(B) = {} THEN 0
    ELSE LET p == CHOOSE q \in BagToSet(B) : TRUE
         IN  p[2] + BagW(B (-) SetToBag({p}))

RECURSIVE BagWX(_)
BagWX(B) ==
    IF BagToSet(B) = {} THEN 0
    ELSE LET p == CHOOSE q \in BagToSet(B) : TRUE
         IN  p[2] * p[1] + BagWX(B (-) SetToBag({p}))

\* C21: on a Mean whose updates had w > 0 and whose reverts were given
\* pairs updated before and not yet reverted, in whatever order, n is the
\* summed weight of the pairs that remain and get() is their weighted mean,
\* 0 when none remains; a revert that leaves no pair never raises.
C21_Unlearn ==
    (obj = "Mean" /\ held.ok) =>
        /\ n = BagW(held.pairs)
        /\ Mean_get(mean) = Returned(IF BagW(held.pairs) = 0 THEN I(0)
                                     ELSE Rat(BagWX(held.pairs), BagW(held.pairs)))
        /\ ~hist.failed

\* a pair other than the newest has just been reverted, after an earlier
\* revert, and weight remains
C21_Witness ==
    /\ obj = "Mean" /\ held.ok /\ last.op = "revert"
    /\ <<last.x, last.w>> # held.newest
    /\ hist.reverts >= 2 /\ hist.updates >= 3
    /\ BagW(held.pairs) > 0 /\ n = BagW(held.pairs)
    /\ mean # pre.mean
    /\ mean = Rat(BagWX(held.pairs), BagW(held.pairs))
====
